---- MODULE Spec2Model ----
(***************************************************************************)
(* js-vsss: Visual Secret Sharing of a black/white raster (src/main.js).   *)
(* The module models shareImage (the (2,2) pixel-expansion encoder) and    *)
(* toBinaryImage (the luminance threshold) as loops over flat RGBA byte    *)
(* buffers, exactly as the code walks ImageData.data; shrinkImage by the   *)
(* sizes it computes; and App.setImage with its chain of timer callbacks.  *)
(***************************************************************************)
EXTENDS Integers, Sequences, FiniteSets, TLC

VARIABLES
    pc,                \* position of the running function
    sw, sh,            \* srcImageData.width, srcImageData.height
    srcData,           \* srcImageData.data (flat RGBA bytes)
    i,                 \* loop variable i (byte offset into the input buffer)
    sharedImageData1,  \* sharedImageData1.data
    sharedImageData2,  \* sharedImageData2.data
    draws,             \* the randInt calls made: <<max, result>> each
    pending,           \* source offsets not yet encoded (any-order pass only)
    writes1, writes2,  \* stores made to each byte of each share (any-order pass only)
    threshold,         \* toBinaryImage's threshold argument
    dst,               \* toBinaryImage's dst.data
    imageWidth,        \* shrinkImage's imageData.width
    imageHeight,       \* shrinkImage's imageData.height
    maxWidth,          \* shrinkImage's maxWidth argument
    maxHeight,         \* shrinkImage's maxHeight argument
    ret,               \* <<width, height>> of the raster shrinkImage returned
    images,            \* app.images
    timers,            \* the setTimeout callbacks not yet run, oldest first
    selections         \* the setImage calls made, with what each closure holds

shrinkVars == <<imageWidth, imageHeight, maxWidth, maxHeight, ret>>

appVars == <<images, timers, selections>>

vars == <<pc, sw, sh, srcData, i, sharedImageData1, sharedImageData2, draws,
          pending, writes1, writes2, threshold, dst, shrinkVars, appVars>>

\* shrinkImage is not running
ShrinkIdle ==
    /\ imageWidth = 0
    /\ imageHeight = 0
    /\ maxWidth = 0
    /\ maxHeight = 0
    /\ ret = <<>>

\* no App has been constructed
AppIdle ==
    /\ images = <<>>
    /\ timers = <<>>
    /\ selections = <<>>

(* ------------------------------ bounds -------------------------------- *)
MaxWidth == 2
MaxHeight == 2
MaxPixels == 4
\* Math.random() is modelled as u / RandRes for u in 0 .. RandRes - 1
RandRes == 12
\* the largest raster toBinaryImage is run on
MaxBinPixels == 2
\* the largest raster given to shareImage with a pixel that is neither pure
\* black nor pure white
MaxNonBinaryPixels == 2

(* --------------------------- byte buffers ----------------------------- *)
\* data[k] of a zero-based JS typed array held as a 1-based sequence
At(data, k) == data[k + 1]

\* ctx.createImageData(w, h).data: transparent black, 4 bytes per pixel
createImageData(w, h) == [n \in 1 .. (4 * w * h) |-> 0]

Black == <<0, 0, 0, 255>>
White == <<255, 255, 255, 255>>
NonBinary ==
    { <<128, 128, 128, 255>>, <<255, 0, 0, 255>>, <<0, 0, 1, 255>>,
      <<0, 0, 0, 254>>, <<0, 0, 0, 0>> }

Dims == { d \in (1 .. MaxWidth) \X (1 .. MaxHeight) : d[1] * d[2] <= MaxPixels }

\* the flat buffer of a raster given as a sequence of pixels
Flatten(pixels) ==
    [n \in 1 .. (4 * Len(pixels)) |-> pixels[((n - 1) \div 4) + 1][((n - 1) % 4) + 1]]

\* every black/white raster of n pixels
BinaryRasters(n) ==
    { Flatten([q \in 1 .. n |-> IF q \in b THEN Black ELSE White]) : b \in SUBSET (1 .. n) }

\* the input rasters of n pixels: the binary rasters and, up to
\* MaxNonBinaryPixels pixels, the white rasters with one pixel that is neither
\* pure black nor pure white
Rasters(n) ==
    BinaryRasters(n) \cup
    { Flatten([q \in 1 .. n |-> IF q = e THEN v ELSE White]) :
        <<e, v>> \in (IF n <= MaxNonBinaryPixels THEN 1 .. n ELSE {}) \X NonBinary }

(* ----------------------------- shareImage ----------------------------- *)
\* mutant: pattern 0 with a single black sub-pixel (bottom-left left transparent)
patterns_OneBlack ==
    << << 0, 0, 0, 0, 0, 0, 0, 0,
          0, 0, 0, 0, 0, 0, 0, 255 >>,
       << 0, 0, 0, 255, 0, 0, 0, 255,
          0, 0, 0, 0, 0, 0, 0, 0 >>,
       << 0, 0, 0, 0, 0, 0, 0, 255,
          0, 0, 0, 0, 0, 0, 0, 255 >>,
       << 0, 0, 0, 255, 0, 0, 0, 0,
          0, 0, 0, 255, 0, 0, 0, 0 >>,
       << 0, 0, 0, 0, 0, 0, 0, 255,
          0, 0, 0, 255, 0, 0, 0, 0 >>,
       << 0, 0, 0, 255, 0, 0, 0, 0,
          0, 0, 0, 0, 0, 0, 0, 255 >> >>

\* mutant: patterns 2 and 3 listed in the other order
patterns_Swapped ==
    << << 0, 0, 0, 0, 0, 0, 0, 0,
          0, 0, 0, 255, 0, 0, 0, 255 >>,
       << 0, 0, 0, 255, 0, 0, 0, 255,
          0, 0, 0, 0, 0, 0, 0, 0 >>,
       << 0, 0, 0, 255, 0, 0, 0, 0,
          0, 0, 0, 255, 0, 0, 0, 0 >>,
       << 0, 0, 0, 0, 0, 0, 0, 255,
          0, 0, 0, 0, 0, 0, 0, 255 >>,
       << 0, 0, 0, 0, 0, 0, 0, 255,
          0, 0, 0, 255, 0, 0, 0, 0 >>,
       << 0, 0, 0, 255, 0, 0, 0, 0,
          0, 0, 0, 0, 0, 0, 0, 255 >> >>

\* mutant: white sub-pixels stored as opaque white instead of transparent
patterns_OpaqueWhite ==
    << << 255, 255, 255, 255, 255, 255, 255, 255,
          0, 0, 0, 255, 0, 0, 0, 255 >>,
       << 0, 0, 0, 255, 0, 0, 0, 255,
          255, 255, 255, 255, 255, 255, 255, 255 >>,
       << 255, 255, 255, 255, 0, 0, 0, 255,
          255, 255, 255, 255, 0, 0, 0, 255 >>,
       << 0, 0, 0, 255, 255, 255, 255, 255,
          0, 0, 0, 255, 255, 255, 255, 255 >>,
       << 255, 255, 255, 255, 0, 0, 0, 255,
          0, 0, 0, 255, 255, 255, 255, 255 >>,
       << 0, 0, 0, 255, 255, 255, 255, 255,
          255, 255, 255, 255, 0, 0, 0, 255 >> >>

patterns ==
    << << 0, 0, 0, 0, 0, 0, 0, 0,
          0, 0, 0, 255, 0, 0, 0, 255 >>,
       << 0, 0, 0, 255, 0, 0, 0, 255,
          0, 0, 0, 0, 0, 0, 0, 0 >>,
       << 0, 0, 0, 0, 0, 0, 0, 255,
          0, 0, 0, 0, 0, 0, 0, 255 >>,
       << 0, 0, 0, 255, 0, 0, 0, 0,
          0, 0, 0, 255, 0, 0, 0, 0 >>,
       << 0, 0, 0, 0, 0, 0, 0, 255,
          0, 0, 0, 255, 0, 0, 0, 0 >>,
       << 0, 0, 0, 255, 0, 0, 0, 0,
          0, 0, 0, 0, 0, 0, 0, 255 >> >>

\* mutant: the first pair names pattern 2 instead of pattern 1
blackPairs_Mispaired ==
    << <<0, 2>>, <<1, 0>>, <<2, 3>>, <<3, 2>>, <<4, 5>>, <<5, 4>> >>

\* mutant: the second pair repeats the first instead of reversing it
blackPairs_Repeated ==
    << <<0, 1>>, <<0, 1>>, <<2, 3>>, <<3, 2>>, <<4, 5>>, <<5, 4>> >>

blackPairs ==
    << <<0, 1>>, <<1, 0>>, <<2, 3>>, <<3, 2>>, <<4, 5>>, <<5, 4>> >>

\* Math.floor(Math.random() * max) with Math.random() = u / RandRes
randInt(u, max) == (u * max) \div RandRes

\* const w = srcImageData.width * 2; const h = srcImageData.height * 2
ShareWidth(srcw) == srcw * 2
ShareHeight(srch) == srch * 2

\* mutant: the row of i computed with the share's width instead of the source's
ystride_ShareWidth(ii, srcw) ==
    (ii \div (ShareWidth(srcw) * 4)) * (ShareWidth(srcw) * 4)

\* const ystride = Math.trunc(i / (sw * 4)) * (w * 4)
ystride(ii, srcw) == (ii \div (srcw * 4)) * (ShareWidth(srcw) * 4)

\* mutant: the row stride left out of j
BlockOffset_NoStride(ii, srcw) == 2 * ii

\* const j = (2 * i) + ystride
BlockOffset(ii, srcw) == (2 * ii) + ystride(ii, srcw)

\* offset of the second row of the block: j + (w * 4)
SecondRowOffset(ii, srcw) == BlockOffset(ii, srcw) + (ShareWidth(srcw) * 4)

\* mutant: the alpha channel not compared
isBlack_IgnoreAlpha(data, ii) ==
    /\ At(data, ii + 0) = 0
    /\ At(data, ii + 1) = 0
    /\ At(data, ii + 2) = 0

isBlack(data, ii) ==
    /\ At(data, ii + 0) = 0
    /\ At(data, ii + 1) = 0
    /\ At(data, ii + 2) = 0
    /\ At(data, ii + 3) = 255

\* for (k = 0; k < 8; k++) { data[j + k] = p[k]; data[j + (w * 4) + k] = p[k + 8] }
\* (a store past the end of a typed array is dropped)
WriteBlock(data, ii, srcw, p) ==
    LET j == BlockOffset(ii, srcw)
        j2 == SecondRowOffset(ii, srcw)
    IN  [n \in 1 .. Len(data) |->
            IF (n - 1) \in j2 .. (j2 + 7) THEN At(p, (n - 1) - j2 + 8)
            ELSE IF (n - 1) \in j .. (j + 7) THEN At(p, (n - 1) - j)
            ELSE data[n]]

\* index into patterns written to share 1 / share 2 for a black pixel, draw r
BlackIndex1(r) == At(At(blackPairs, r), 0)
BlackIndex2(r) == At(At(blackPairs, r), 1)
\* index into patterns written to both shares for a white pixel, draw r
WhiteIndex(r) == r

ShareInit ==
    /\ \E d \in Dims :
         /\ sw = d[1]
         /\ sh = d[2]
         /\ srcData \in Rasters(d[1] * d[2])
         /\ sharedImageData1 = createImageData(ShareWidth(d[1]), ShareHeight(d[2]))
         /\ sharedImageData2 = createImageData(ShareWidth(d[1]), ShareHeight(d[2]))
    /\ i = 0
    /\ draws = <<>>
    /\ pc = "loop"
    /\ pending = {}
    /\ writes1 = <<>>
    /\ writes2 = <<>>
    /\ threshold = 0
    /\ dst = <<>>
    /\ ShrinkIdle
    /\ AppIdle

\* one iteration of the pixel loop, isBlack branch, with the i += 4 and the
\* loop test that follow it; when the test fails shareImage returns the shares
ShareBlack ==
    /\ pc = "loop"
    /\ i < Len(srcData)
    /\ isBlack(srcData, i)
    /\ \E u \in 0 .. (RandRes - 1) :
         LET r == randInt(u, Len(blackPairs))
             p1 == At(patterns, BlackIndex1(r))
             p2 == At(patterns, BlackIndex2(r))
         IN  /\ sharedImageData1' = WriteBlock(sharedImageData1, i, sw, p1)
             /\ sharedImageData2' = WriteBlock(sharedImageData2, i, sw, p2)
             /\ draws' = Append(draws, <<Len(blackPairs), r>>)
    /\ i' = i + 4
    /\ pc' = IF i + 4 < Len(srcData) THEN "loop" ELSE "done"
    /\ UNCHANGED <<sw, sh, srcData, pending, writes1, writes2, threshold, dst,
                   shrinkVars, appVars>>

\* mutant: the else branch draws a pattern for each share separately
ShareWhite_Redraw ==
    /\ pc = "loop"
    /\ i < Len(srcData)
    /\ ~isBlack(srcData, i)
    /\ \E u1, u2 \in 0 .. (RandRes - 1) :
         LET r1 == randInt(u1, Len(patterns))
             r2 == randInt(u2, Len(patterns))
         IN  /\ sharedImageData1' = WriteBlock(sharedImageData1, i, sw, At(patterns, WhiteIndex(r1)))
             /\ sharedImageData2' = WriteBlock(sharedImageData2, i, sw, At(patterns, WhiteIndex(r2)))
             /\ draws' = Append(Append(draws, <<Len(patterns), r1>>), <<Len(patterns), r2>>)
    /\ i' = i + 4
    /\ pc' = IF i + 4 < Len(srcData) THEN "loop" ELSE "done"
    /\ UNCHANGED <<sw, sh, srcData, pending, writes1, writes2, threshold, dst,
                   shrinkVars, appVars>>

\* one iteration of the pixel loop, else branch, with the i += 4 and the loop
\* test that follow it
ShareWhite ==
    /\ pc = "loop"
    /\ i < Len(srcData)
    /\ ~isBlack(srcData, i)
    /\ \E u \in 0 .. (RandRes - 1) :
         LET r == randInt(u, Len(patterns))
             p == At(patterns, WhiteIndex(r))
         IN  /\ sharedImageData1' = WriteBlock(sharedImageData1, i, sw, p)
             /\ sharedImageData2' = WriteBlock(sharedImageData2, i, sw, p)
             /\ draws' = Append(draws, <<Len(patterns), r>>)
    /\ i' = i + 4
    /\ pc' = IF i + 4 < Len(srcData) THEN "loop" ELSE "done"
    /\ UNCHANGED <<sw, sh, srcData, pending, writes1, writes2, threshold, dst,
                   shrinkVars, appVars>>

Init == ShareInit

Next == ShareBlack \/ ShareWhite

Spec == Init /\ [][Next]_vars

(* ------------------- vocabulary of the properties --------------------- *)
NumPixels == sw * sh
SourcePixels == 0 .. (NumPixels - 1)
ShareData(s) == IF s = 1 THEN sharedImageData1 ELSE sharedImageData2

\* source pixel q (row-major, zero-based) has been through the loop body
Processed(q) == 4 * q < i

\* the RGBA value of source pixel q
SrcPixelAt(q) == [c \in 1 .. 4 |-> At(srcData, 4 * q + (c - 1))]

\* byte offset of channel c of output coordinate (X, Y) in a share 2*sw wide
OutOffset(X, Y, c) == 4 * (Y * (2 * sw) + X) + c

\* the 2x2 block of share s for source pixel q, as 16 bytes read row-major:
\* (2x,2y), (2x+1,2y), (2x,2y+1), (2x+1,2y+1)
ShareBlock(s, q) ==
    LET x == q % sw
        y == q \div sw
        data == ShareData(s)
    IN  [n \in 1 .. 16 |->
            At(data, OutOffset(2 * x + (((n - 1) \div 4) % 2),
                               2 * y + ((n - 1) \div 8),
                               (n - 1) % 4))]

\* sub-pixel k (0..3, row-major) of a 16-byte block
SubPixel(block, k) == [c \in 1 .. 4 |-> At(block, 4 * k + (c - 1))]
Transparent == <<0, 0, 0, 0>>
IsBlackSub(block, k) == SubPixel(block, k) = Black

\* black-dominant overlay of two blocks: black where either block is black
Overlay(b1, b2) ==
    [k \in 0 .. 3 |-> IF IsBlackSub(b1, k) \/ IsBlackSub(b2, k) THEN "B" ELSE "W"]
CountOf(colour, ov) == Cardinality({k \in 0 .. 3 : ov[k] = colour})

\* the value the k-th randInt call returned
DrawOf(q) == draws[q + 1][2]

\* the pattern index the code selects for share s at source pixel q
PatternIndex(s, q) ==
    IF SrcPixelAt(q) = Black
    THEN (IF s = 1 THEN BlackIndex1(DrawOf(q)) ELSE BlackIndex2(DrawOf(q)))
    ELSE WhiteIndex(DrawOf(q))

DrawValues == 0 .. 5

(* ------------------------------- C1 ----------------------------------- *)
\* C1: at every black source pixel already encoded, the black-dominant overlay
\* of the share-1 block and the share-2 block is black at all four sub-pixels;
\* equivalently every entry (i,j) of blackPairs has patterns[i] OR patterns[j]
\* black at all four sub-pixel positions.
C1_BlackOverlayAllBlack ==
    /\ \A q \in SourcePixels :
         (Processed(q) /\ SrcPixelAt(q) = Black)
            => CountOf("B", Overlay(ShareBlock(1, q), ShareBlock(2, q))) = 4
    /\ \A r \in 1 .. Len(blackPairs) :
         CountOf("B", Overlay(At(patterns, blackPairs[r][1]),
                              At(patterns, blackPairs[r][2]))) = 4

C1_Witness ==
    /\ pc = "done"
    /\ NumPixels = MaxPixels
    /\ \A q \in SourcePixels : SrcPixelAt(q) = Black
    /\ DrawOf(0) # DrawOf(1)

(* ------------------------------- C2 ----------------------------------- *)
\* C2: at every non-black source pixel already encoded, the two shares hold the
\* same 2x2 block and the overlay has exactly 2 black and 2 white sub-pixels.
C2_WhiteOverlayHalfBlack ==
    \A q \in SourcePixels :
        (Processed(q) /\ SrcPixelAt(q) # Black)
           => LET b1 == ShareBlock(1, q)
                  b2 == ShareBlock(2, q)
                  ov == Overlay(b1, b2)
              IN  /\ b1 = b2
                  /\ CountOf("B", ov) = 2
                  /\ CountOf("W", ov) = 2

C2_Witness ==
    /\ pc = "done"
    /\ NumPixels = MaxPixels
    /\ \A q \in SourcePixels : SrcPixelAt(q) = White
    /\ DrawOf(0) = 0
    /\ DrawOf(1) = 5

(* ------------------------------- C3 ----------------------------------- *)
\* the block shareImage writes into share s for a black / a white source
\* pixel when the draw is r
IndexFor(s, black, r) ==
    IF black THEN (IF s = 1 THEN BlackIndex1(r) ELSE BlackIndex2(r)) ELSE WhiteIndex(r)
BlockFor(s, black, r) == At(patterns, IndexFor(s, black, r))

\* C3: a single share does not tell a black source pixel from a white one: the
\* block found in share s at an encoded pixel is the one selected by its draw,
\* for each share s and pattern index p exactly one draw value in 0..5 selects
\* p for a black pixel and exactly one selects it for a white pixel, and the
\* six patterns are distinct blocks.
C3_ShareAloneIndistinguishable ==
    /\ \A q \in SourcePixels : \A s \in {1, 2} :
         Processed(q) =>
            /\ DrawOf(q) \in DrawValues
            /\ ShareBlock(s, q) = BlockFor(s, SrcPixelAt(q) = Black, DrawOf(q))
    /\ \A s \in {1, 2} : \A p \in 0 .. 5 : \A black \in BOOLEAN :
         Cardinality({r \in DrawValues : IndexFor(s, black, r) = p}) = 1
    /\ \A p1, p2 \in 0 .. 5 : p1 < p2 => At(patterns, p1) # At(patterns, p2)

\* a black and a white source pixel that show the same block in share 1
C3_Witness ==
    /\ pc = "done"
    /\ \E q1, q2 \in SourcePixels :
         /\ SrcPixelAt(q1) = Black
         /\ SrcPixelAt(q2) = White
         /\ ShareBlock(1, q1) = ShareBlock(1, q2)
         /\ ShareBlock(2, q1) # ShareBlock(2, q2)

(* ------------------------------- C4 ----------------------------------- *)
\* a 16-byte block read row-major as B (opaque black) and W (transparent)
ReadBW(block) ==
    [k \in 1 .. 4 |->
        LET sub == SubPixel(block, k - 1)
        IN  IF sub = Black THEN "B" ELSE IF sub = Transparent THEN "W" ELSE "?"]

\* the table as the specification prints it
PrintedTable ==
    << <<"W", "W", "W", "B">>, <<"W", "B", "W", "W">>, <<"W", "W", "B", "B">>,
       <<"B", "W", "B", "W">>, <<"W", "B", "B", "W">>, <<"B", "W", "W", "B">> >>

\* the table the code holds
CodeTable ==
    << <<"W", "W", "B", "B">>, <<"B", "B", "W", "W">>, <<"W", "B", "W", "B">>,
       <<"B", "W", "B", "W">>, <<"W", "B", "B", "W">>, <<"B", "W", "W", "B">> >>

PrintedPairs ==
    << <<0, 1>>, <<1, 0>>, <<2, 3>>, <<3, 2>>, <<4, 5>>, <<5, 4>> >>

\* every encoded block of either share reads as the entry of table t at the
\* pattern index the code selected, and the black-pair list is the printed one
BlocksFollow(t) ==
    /\ \A q \in SourcePixels : \A s \in {1, 2} :
         Processed(q) => ReadBW(ShareBlock(s, q)) = At(t, PatternIndex(s, q))
    /\ blackPairs = PrintedPairs

\* the code's table has the entries of t, each read as B and W
TableIs(t) ==
    /\ Len(patterns) = Len(t)
    /\ \A p \in 0 .. (Len(t) - 1) : ReadBW(At(patterns, p)) = At(t, p)

\* C4 as stated: the pattern table is 0=[W,W,W,B], 1=[W,B,W,W], 2=[W,W,B,B],
\* 3=[B,W,B,W], 4=[W,B,B,W], 5=[B,W,W,B], with the pair list
\* (0,1),(1,0),(2,3),(3,2),(4,5),(5,4).
C4_Original_PrintedTable == BlocksFollow(PrintedTable)

\* C4 amended: the pattern table is 0=[W,W,B,B], 1=[B,B,W,W], 2=[W,B,W,B],
\* 3=[B,W,B,W], 4=[W,B,B,W], 5=[B,W,W,B], with the pair list
\* (0,1),(1,0),(2,3),(3,2),(4,5),(5,4).
C4_PatternTable == BlocksFollow(CodeTable) /\ TableIs(CodeTable)

\* a raster in which patterns 0 to 3 have been written to each share
C4_Witness ==
    /\ pc = "done"
    /\ NumPixels = MaxPixels
    /\ {PatternIndex(1, q) : q \in SourcePixels} = {0, 1, 2, 3}
    /\ {PatternIndex(2, q) : q \in SourcePixels} = {0, 1, 2, 3}
    /\ SrcPixelAt(0) = Black
    /\ SrcPixelAt(3) = White

(* ------------------------------- C5 ----------------------------------- *)
\* C5: each share is 2*sw x 2*sh pixels; for source pixel (x,y) the offset j
\* computed from i = 4*(y*sw + x) is 4*((2y)*(2sw) + 2x), the second row is at
\* 4*((2y+1)*(2sw) + 2x), and the selected pattern lies row-major in exactly
\* the output pixels (2x,2y), (2x+1,2y), (2x,2y+1), (2x+1,2y+1): the block of
\* a pixel not yet encoded is still as createImageData left it.
C5_BlockPlacement ==
    /\ Len(sharedImageData1) = 4 * (2 * sw) * (2 * sh)
    /\ Len(sharedImageData2) = 4 * (2 * sw) * (2 * sh)
    /\ ShareWidth(sw) = 2 * sw
    /\ ShareHeight(sh) = 2 * sh
    /\ \A q \in SourcePixels :
         LET x == q % sw
             y == q \div sw
             i0 == 4 * (y * sw + x)
         IN  /\ BlockOffset(i0, sw) = 4 * ((2 * y) * (2 * sw) + 2 * x)
             /\ SecondRowOffset(i0, sw) = 4 * ((2 * y + 1) * (2 * sw) + 2 * x)
             /\ \A s \in {1, 2} :
                  ShareBlock(s, q) = IF Processed(q)
                                     THEN At(patterns, PatternIndex(s, q))
                                     ELSE [n \in 1 .. 16 |-> 0]

\* a raster with two rows and two columns, encoded except for its last pixel
C5_Witness ==
    /\ sw = 2
    /\ sh = 2
    /\ i = 12
    /\ SrcPixelAt(2) = Black
    /\ ShareBlock(1, 2) # ShareBlock(2, 2)

(* ------------------------------- C6 ----------------------------------- *)
SharePixels(s) ==
    { [c \in 1 .. 4 |-> At(ShareData(s), 4 * n + (c - 1))] :
        n \in 0 .. ((Len(ShareData(s)) \div 4) - 1) }

\* C6 as stated: after shareImage completes every sub-pixel of both shares is
\* opaque, and is (0,0,0,255) or (255,255,255,255).
C6_Original_OpaqueBlackOrWhite ==
    pc = "done" => \A s \in {1, 2} : SharePixels(s) \subseteq {Black, White}

\* C6 amended: after shareImage completes every sub-pixel of both shares has
\* R = G = B = 0; a black sub-pixel has alpha 255 and a white sub-pixel has
\* alpha 0 (transparent); both values occur and no other does.
C6_OpaqueBlackOrTransparent ==
    pc = "done" => \A s \in {1, 2} : SharePixels(s) = {Black, Transparent}

C6_Witness ==
    /\ pc = "done"
    /\ sw = 1
    /\ sh = 2
    /\ SrcPixelAt(0) = White
    /\ SrcPixelAt(1) = Black

(* ------------------------------- C8 ----------------------------------- *)
\* byte n0 of share s as a function of the source raster and the draws alone:
\* the output pixel (X, Y) belongs to source pixel (X div 2, Y div 2), whose
\* draw is the one at its row-major position
ExpectedByte(s, n0) ==
    LET X == (n0 \div 4) % (2 * sw)
        Y == (n0 \div 4) \div (2 * sw)
        q == (Y \div 2) * sw + (X \div 2)
    IN  IF q < Len(draws)
        THEN LET r == draws[q + 1][2]
                 idx == IF SrcPixelAt(q) = Black THEN blackPairs[r + 1][s] ELSE r
             IN  patterns[idx + 1][8 * (Y % 2) + 4 * (X % 2) + (n0 % 4) + 1]
        ELSE 0

\* C8: shareImage is deterministic given its draws: every pixel encoded so far
\* has consumed exactly one draw, requested with bound 6 and lying in 0..5, in
\* row-major order, and both shares are a function of the source raster and
\* the draws alone.
C8_DeterministicGivenDraws ==
    /\ Len(draws) = i \div 4
    /\ pc = "done" => Len(draws) = NumPixels
    /\ \A k \in 1 .. Len(draws) : draws[k][1] = 6 /\ draws[k][2] \in DrawValues
    /\ \A s \in {1, 2} : \A n \in 1 .. Len(ShareData(s)) :
         ShareData(s)[n] = ExpectedByte(s, n - 1)

C8_Witness ==
    /\ pc = "done"
    /\ NumPixels = MaxPixels
    /\ draws = << <<6, 3>>, <<6, 0>>, <<6, 5>>, <<6, 3>> >>
    /\ SrcPixelAt(0) = Black
    /\ SrcPixelAt(3) = White

(* ------------------------------- C9 ----------------------------------- *)
\* C9: no input is rejected: a source pixel is encoded as black (two different
\* blocks, those of the drawn black pair) only when it is (0,0,0,255); any
\* other pixel value is encoded as white (one draw, the drawn pattern in both
\* shares); and the pass always has a next step until it has returned.
C9_NonBlackEncodedAsWhite ==
    /\ \A q \in SourcePixels :
         Processed(q) =>
            /\ (ShareBlock(1, q) # ShareBlock(2, q)) <=> (SrcPixelAt(q) = Black)
            /\ SrcPixelAt(q) # Black =>
                  /\ ShareBlock(1, q) = At(patterns, DrawOf(q))
                  /\ ShareBlock(2, q) = At(patterns, DrawOf(q))
    /\ pc \in {"loop", "done"}
    /\ pc = "loop" => ENABLED Next
    /\ pc = "done" => i = Len(srcData)

\* a raster holding a pixel with RGB = (0,0,0) that is not opaque, encoded
C9_Witness ==
    /\ pc = "done"
    /\ \E q \in SourcePixels :
         /\ SrcPixelAt(q) \in {<<0, 0, 0, 254>>, <<0, 0, 0, 0>>}
         /\ ShareBlock(1, q) = ShareBlock(2, q)
    /\ \E q \in SourcePixels : SrcPixelAt(q) = White

(* --------------- the pixel loop taken in any order (C7) --------------- *)
\* the share offsets the loop body stores to for the source pixel at offset ii
WrittenOffsets(ii, srcw, len) ==
    LET j == BlockOffset(ii, srcw)
        j2 == SecondRowOffset(ii, srcw)
    IN  { n0 \in 0 .. (len - 1) : n0 \in j .. (j + 7) \/ n0 \in j2 .. (j2 + 7) }

CountWrites(cnt, ii, srcw) ==
    LET w == WrittenOffsets(ii, srcw, Len(cnt))
    IN  [n \in 1 .. Len(cnt) |-> IF (n - 1) \in w THEN cnt[n] + 1 ELSE cnt[n]]

AnyOrderInit ==
    /\ \E d \in Dims :
         /\ sw = d[1]
         /\ sh = d[2]
         /\ srcData \in BinaryRasters(d[1] * d[2])
         /\ sharedImageData1 = createImageData(ShareWidth(d[1]), ShareHeight(d[2]))
         /\ sharedImageData2 = createImageData(ShareWidth(d[1]), ShareHeight(d[2]))
         /\ writes1 = createImageData(ShareWidth(d[1]), ShareHeight(d[2]))
         /\ writes2 = createImageData(ShareWidth(d[1]), ShareHeight(d[2]))
         /\ pending = {4 * q : q \in 0 .. (d[1] * d[2] - 1)}
         /\ draws = [q \in 1 .. (d[1] * d[2]) |-> <<0, 0>>]
    /\ i = 0
    /\ pc = "loop"
    /\ threshold = 0
    /\ dst = <<>>
    /\ ShrinkIdle
    /\ AppIdle

\* the loop body run for any source pixel not yet encoded; draws[q + 1] keeps
\* the draw made for source pixel q
EncodeAnyPixel ==
    /\ pc = "loop"
    /\ \E ii \in pending : \E u \in 0 .. (RandRes - 1) :
         LET r == randInt(u, IF isBlack(srcData, ii) THEN Len(blackPairs) ELSE Len(patterns))
         IN  /\ sharedImageData1' =
                    WriteBlock(sharedImageData1, ii, sw, BlockFor(1, isBlack(srcData, ii), r))
             /\ sharedImageData2' =
                    WriteBlock(sharedImageData2, ii, sw, BlockFor(2, isBlack(srcData, ii), r))
             /\ writes1' = CountWrites(writes1, ii, sw)
             /\ writes2' = CountWrites(writes2, ii, sw)
             /\ draws' = [draws EXCEPT ![(ii \div 4) + 1] = <<6, r>>]
             /\ pending' = pending \ {ii}
             /\ pc' = IF pending = {ii} THEN "done" ELSE "loop"
    /\ UNCHANGED <<sw, sh, srcData, i, threshold, dst, shrinkVars, appVars>>

AnyOrderNext == EncodeAnyPixel

AnyOrderSpec == AnyOrderInit /\ [][AnyOrderNext]_vars

\* the shares the row-major pass builds from the draws kept per pixel
RECURSIVE RowMajorPass(_, _, _)
RowMajorPass(s, data, ii) ==
    IF ~(ii < Len(srcData)) THEN data
    ELSE RowMajorPass(s,
             WriteBlock(data, ii, sw,
                        BlockFor(s, isBlack(srcData, ii), draws[(ii \div 4) + 1][2])),
             ii + 4)

\* C7: within each share the bytes written for distinct source pixels are
\* disjoint and those of all source pixels cover the share: whichever pixels
\* have been encoded, no byte has been written twice, and once every pixel is
\* encoded each byte has been written exactly once; with the draw of each
\* pixel fixed, any order of encoding ends with the two shares of the
\* row-major pass.
C7_DisjointWritesAnyOrder ==
    LET len == Len(sharedImageData1)
    IN  /\ \A n \in 1 .. len : writes1[n] <= 1 /\ writes2[n] <= 1
        /\ pc = "done" =>
             /\ \A n \in 1 .. len : writes1[n] = 1 /\ writes2[n] = 1
             /\ sharedImageData1 = RowMajorPass(1, createImageData(2 * sw, 2 * sh), 0)
             /\ sharedImageData2 = RowMajorPass(2, createImageData(2 * sw, 2 * sh), 0)

\* a 2x2 raster whose last three pixels are encoded before its first
C7_Witness ==
    /\ pc = "loop"
    /\ sw = 2
    /\ sh = 2
    /\ pending = {0}
    /\ SrcPixelAt(0) = Black
    /\ SrcPixelAt(3) = White
    /\ \A n \in 1 .. Len(writes1) :
         writes1[n] = (IF (n - 1) \in WrittenOffsets(0, sw, Len(writes1)) THEN 0 ELSE 1)

(* ---------------------------- toBinaryImage --------------------------- *)
BINARY_THRESHOLD == 128

\* JavaScript numbers are IEEE-754 doubles.  Every double met in the luminance
\* sum is a multiple of 2^-56 below 2^8, so it is held exactly as the integer
\* value * 2^56, written in three limbs <<low, middle, high>> of base 2^22.
LimbBase == 2 ^ 22

\* the doubles nearest to 0.2126, 0.7152 and 0.0722, times 2^56
Coef2126 == <<2174328, 3395708, 870>>
Coef7152 == <<1664296, 1926024, 2929>>
Coef0722 == <<355677, 3066875, 295>>

RECURSIVE BitLength(_)
BitLength(x) == IF x = 0 THEN 0 ELSE 1 + BitLength(x \div 2)

\* the exact product of a limb number and a byte
MulByte(v, k) ==
    LET t0 == v[1] * k
        t1 == v[2] * k + (t0 \div LimbBase)
        t2 == v[3] * k + (t1 \div LimbBase)
    IN  <<t0 % LimbBase, t1 % LimbBase, t2>>

\* the exact sum of two limb numbers
AddLimbs(v, w) ==
    LET t0 == v[1] + w[1]
        t1 == v[2] + w[2] + (t0 \div LimbBase)
        t2 == v[3] + w[3] + (t1 \div LimbBase)
    IN  <<t0 % LimbBase, t1 % LimbBase, t2>>

\* rounding to a 53-bit significand, ties to even: what each double
\* multiplication and addition does to its exact result
RoundDouble(v) ==
    LET bits == IF v[3] > 0 THEN 44 + BitLength(v[3]) ELSE 44
        drop == bits - 53
    IN  IF drop <= 0 THEN v
        ELSE LET unit == 2 ^ drop
                 rem == v[1] % unit
                 odd == (v[1] \div unit) % 2 = 1
                 up == rem > unit \div 2 \/ (rem = unit \div 2 /\ odd)
                 low == v[1] - rem + (IF up THEN unit ELSE 0)
                 mid == v[2] + (low \div LimbBase)
             IN  <<low % LimbBase, mid % LimbBase, v[3] + (mid \div LimbBase)>>

\* let c = 0.2126 * data[i] + 0.7152 * data[i + 1] + 0.0722 * data[i + 2]
Luminance(r, g, b) ==
    RoundDouble(AddLimbs(
        RoundDouble(AddLimbs(RoundDouble(MulByte(Coef2126, r)),
                             RoundDouble(MulByte(Coef7152, g)))),
        RoundDouble(MulByte(Coef0722, b))))

\* threshold <= c, for an integer threshold: threshold * 2^56 has high limb
\* threshold * 2^12 and zero lower limbs
ThresholdReached(t, c) == t * (2 ^ 12) <= c[3]

\* dst.data[i + 0 .. i + 3] = v, v, v, 255
SetPixel(data, ii, v) ==
    [n \in 1 .. Len(data) |->
        IF (n - 1) \in ii .. (ii + 2) THEN v
        ELSE IF (n - 1) = ii + 3 THEN 255
        ELSE data[n]]

\* the pixel values toBinaryImage is run on: greys around the threshold,
\* colours whose luminance is exactly 128 in real arithmetic, the extremes,
\* and pixels that are not opaque
BinPixelValues ==
    { <<0, 0, 0, 255>>, <<255, 255, 255, 255>>, <<127, 127, 127, 255>>,
      <<128, 128, 128, 255>>, <<12, 175, 4, 255>>, <<145, 118, 177, 0>>,
      <<255, 255, 255, 0>>, <<0, 0, 0, 0>>, <<0, 179, 0, 128>> }

BinThresholds == {BINARY_THRESHOLD, 0, 255}

BinInit ==
    /\ \E d \in Dims :
         /\ sw = d[1]
         /\ sh = d[2]
         /\ d[1] * d[2] <= MaxBinPixels
         /\ srcData \in { Flatten(px) : px \in [1 .. (d[1] * d[2]) -> BinPixelValues] }
         /\ dst = createImageData(d[1], d[2])
    /\ threshold \in BinThresholds
    /\ i = 0
    /\ pc = "binarize"
    /\ sharedImageData1 = <<>>
    /\ sharedImageData2 = <<>>
    /\ draws = <<>>
    /\ pending = {}
    /\ writes1 = <<>>
    /\ writes2 = <<>>
    /\ ShrinkIdle
    /\ AppIdle

\* one iteration of the loop, threshold <= c, with the i += 4 and the loop test
BinWhite ==
    /\ pc = "binarize"
    /\ i < Len(srcData)
    /\ ThresholdReached(threshold,
            Luminance(At(srcData, i), At(srcData, i + 1), At(srcData, i + 2)))
    /\ dst' = SetPixel(dst, i, 255)
    /\ i' = i + 4
    /\ pc' = IF i + 4 < Len(srcData) THEN "binarize" ELSE "binarized"
    /\ UNCHANGED <<sw, sh, srcData, threshold, sharedImageData1, sharedImageData2,
                   draws, pending, writes1, writes2, shrinkVars, appVars>>

\* one iteration of the loop, else branch, with the i += 4 and the loop test
BinBlack ==
    /\ pc = "binarize"
    /\ i < Len(srcData)
    /\ ~ThresholdReached(threshold,
            Luminance(At(srcData, i), At(srcData, i + 1), At(srcData, i + 2)))
    /\ dst' = SetPixel(dst, i, 0)
    /\ i' = i + 4
    /\ pc' = IF i + 4 < Len(srcData) THEN "binarize" ELSE "binarized"
    /\ UNCHANGED <<sw, sh, srcData, threshold, sharedImageData1, sharedImageData2,
                   draws, pending, writes1, writes2, shrinkVars, appVars>>

BinNext == BinWhite \/ BinBlack

BinSpec == BinInit /\ [][BinNext]_vars

(* ------------------------------- C10 ---------------------------------- *)
\* the RGBA value of pixel q of dst
DstPixelAt(q) == [c \in 1 .. 4 |-> At(dst, 4 * q + (c - 1))]

\* L = 0.2126*R + 0.7152*G + 0.0722*B >= threshold in real arithmetic, both
\* sides times 10000
RealLuminanceReached(px, t) == 2126 * px[1] + 7152 * px[2] + 722 * px[3] >= 10000 * t

\* C10: toBinaryImage returns a raster of the same size in which every pixel
\* is (255,255,255,255) when L = 0.2126*R + 0.7152*G + 0.0722*B >= threshold
\* and (0,0,0,255) otherwise, whatever the input alpha.
C10_Original_RealLuminance ==
    pc = "binarized" =>
        /\ Len(dst) = 4 * sw * sh
        /\ \A q \in SourcePixels :
             DstPixelAt(q) = IF RealLuminanceReached(SrcPixelAt(q), threshold)
                             THEN White ELSE Black

(* --------------------------- shrinkImage ------------------------------ *)
\* the largest width and height of a raster given to shrinkImage
MaxImageSide == 9
\* the largest maxWidth and maxHeight given to shrinkImage
MaxLimit == 3

\* imageData.width <= maxWidth && imageData.height <= maxHeight
FitsLimits(w, h, mw, mh) == w <= mw /\ h <= mh

\* Math.ceil(Math.log2(Math.max(w / mw, h / mh))) for a ratio above 2^(k-1):
\* the least exponent from k on whose power of two reaches both quotients.
\* The quotient of two integers is at most 2^k as a double exactly when it
\* is as a real, and Math.log2 is exact on the powers of two.
RECURSIVE CeilLog2Ratio(_, _, _, _, _)
CeilLog2Ratio(w, h, mw, mh, k) ==
    IF w <= mw * (2 ^ k) /\ h <= mh * (2 ^ k)
    THEN k
    ELSE CeilLog2Ratio(w, h, mw, mh, k + 1)

\* const exp = Math.max(1, Math.ceil(Math.log2(Math.max(w / maxWidth, h / maxHeight))))
ShrinkExp(w, h, mw, mh) ==
    LET c == CeilLog2Ratio(w, h, mw, mh, 0)
    IN  IF c < 1 THEN 1 ELSE c

\* const scale = Math.pow(2, exp)
ShrinkScale(w, h, mw, mh) == 2 ^ ShrinkExp(w, h, mw, mh)

\* const sw = Math.floor(w / scale)
ShrunkWidth(w, h, mw, mh) == w \div ShrinkScale(w, h, mw, mh)

\* const sh = Math.floor(h / scale)
ShrunkHeight(w, h, mw, mh) == h \div ShrinkScale(w, h, mw, mh)

\* dstCtx.getImageData(0, 0, sw, sh) throws IndexSizeError when sw or sh is 0
GetImageDataThrows(w, h) == w = 0 \/ h = 0

ShrinkInit ==
    /\ pc = "shrink"
    /\ imageWidth \in 1 .. MaxImageSide
    /\ imageHeight \in 1 .. MaxImageSide
    /\ maxWidth \in 1 .. MaxLimit
    /\ maxHeight \in 1 .. MaxLimit
    /\ ret = <<>>
    /\ sw = 0
    /\ sh = 0
    /\ srcData = <<>>
    /\ i = 0
    /\ sharedImageData1 = <<>>
    /\ sharedImageData2 = <<>>
    /\ draws = <<>>
    /\ pending = {}
    /\ writes1 = <<>>
    /\ writes2 = <<>>
    /\ threshold = 0
    /\ dst = <<>>
    /\ AppIdle

\* the early return: the input raster itself is returned
ShrinkUnchanged ==
    /\ pc = "shrink"
    /\ FitsLimits(imageWidth, imageHeight, maxWidth, maxHeight)
    /\ ret' = <<imageWidth, imageHeight>>
    /\ pc' = "shrunk"
    /\ UNCHANGED <<sw, sh, srcData, i, sharedImageData1, sharedImageData2, draws,
                   pending, writes1, writes2, threshold, dst,
                   imageWidth, imageHeight, maxWidth, maxHeight, appVars>>

\* the raster is drawn at sw x sh and read back
ShrinkScaled ==
    /\ pc = "shrink"
    /\ ~FitsLimits(imageWidth, imageHeight, maxWidth, maxHeight)
    /\ sw' = ShrunkWidth(imageWidth, imageHeight, maxWidth, maxHeight)
    /\ sh' = ShrunkHeight(imageWidth, imageHeight, maxWidth, maxHeight)
    /\ ~GetImageDataThrows(sw', sh')
    /\ ret' = <<sw', sh'>>
    /\ pc' = "shrunk"
    /\ UNCHANGED <<srcData, i, sharedImageData1, sharedImageData2, draws,
                   pending, writes1, writes2, threshold, dst,
                   imageWidth, imageHeight, maxWidth, maxHeight, appVars>>

\* sw or sh came out 0: getImageData throws and shrinkImage returns nothing
ShrinkThrows ==
    /\ pc = "shrink"
    /\ ~FitsLimits(imageWidth, imageHeight, maxWidth, maxHeight)
    /\ sw' = ShrunkWidth(imageWidth, imageHeight, maxWidth, maxHeight)
    /\ sh' = ShrunkHeight(imageWidth, imageHeight, maxWidth, maxHeight)
    /\ GetImageDataThrows(sw', sh')
    /\ pc' = "shrinkThrew"
    /\ UNCHANGED <<srcData, i, sharedImageData1, sharedImageData2, draws,
                   pending, writes1, writes2, threshold, dst,
                   imageWidth, imageHeight, maxWidth, maxHeight, ret, appVars>>

ShrinkNext == ShrinkUnchanged \/ ShrinkScaled \/ ShrinkThrows

ShrinkSpec == ShrinkInit /\ [][ShrinkNext]_vars

(* ------------------------------- C11 ---------------------------------- *)
\* the number of halvings of repeated halving: the smallest k >= from for which
\* both halved dimensions are within the limits
RECURSIVE Halvings(_, _, _, _, _)
Halvings(w, h, mw, mh, from) ==
    IF (w \div (2 ^ from)) <= mw /\ (h \div (2 ^ from)) <= mh
    THEN from
    ELSE Halvings(w, h, mw, mh, from + 1)

\* the size the halving rule gives
HalvedSize(w, h, mw, mh) ==
    IF w <= mw /\ h <= mh
    THEN <<w, h>>
    ELSE LET k == Halvings(w, h, mw, mh, 1)
         IN  <<w \div (2 ^ k), h \div (2 ^ k)>>

\* C11: shrinkImage returns the input unchanged when it is within the limits;
\* otherwise it returns a raster of floor(width/2^k) x floor(height/2^k),
\* k the smallest k >= 1 for which both halved dimensions are within the
\* limits; the returned width and height never exceed the limits.
C11_Original_RepeatedHalving ==
    pc \in {"shrunk", "shrinkThrew"} =>
        /\ pc = "shrunk"
        /\ ret = HalvedSize(imageWidth, imageHeight, maxWidth, maxHeight)
        /\ ret[1] <= maxWidth
        /\ ret[2] <= maxHeight

(* ---------------------------- App.setImage ---------------------------- *)
\* Rasters are carried by their <<width, height>>; a share is named by the
\* setImage call that made it.  Callbacks of sleep(500) run in the order in
\* which their timers were set, so the pending ones form a queue.
MAX_IMAGE_WIDTH == 300
MAX_IMAGE_HEIGHT == 300

\* the number of setImage calls in a run
MaxSelections == 3

\* <<image.width, image.height>> of the images that can be selected
ImageSizes == { <<200, 100>>, <<601, 600>>, <<1, 301>> }

\* what shrinkImage(img, MAX_IMAGE_WIDTH, MAX_IMAGE_HEIGHT) returns
shrinkImage(img) ==
    IF FitsLimits(img[1], img[2], MAX_IMAGE_WIDTH, MAX_IMAGE_HEIGHT)
    THEN img
    ELSE << ShrunkWidth(img[1], img[2], MAX_IMAGE_WIDTH, MAX_IMAGE_HEIGHT),
            ShrunkHeight(img[1], img[2], MAX_IMAGE_WIDTH, MAX_IMAGE_HEIGHT) >>

\* shrinkImage(img, MAX_IMAGE_WIDTH, MAX_IMAGE_HEIGHT) throws
shrinkImageThrows(img) ==
    /\ ~FitsLimits(img[1], img[2], MAX_IMAGE_WIDTH, MAX_IMAGE_HEIGHT)
    /\ GetImageDataThrows(shrinkImage(img)[1], shrinkImage(img)[2])

\* element s of shareImage(binaryImage) in the setImage call n, binaryImage
\* of size b
SharedImage(n, s, b) ==
    [selection |-> n, share |-> s, width |-> ShareWidth(b[1]), height |-> ShareHeight(b[2])]

\* new App(canvas)
AppInit ==
    /\ pc = "app"
    /\ images = <<>>
    /\ timers = <<>>
    /\ selections = <<>>
    /\ ShrinkIdle
    /\ sw = 0
    /\ sh = 0
    /\ srcData = <<>>
    /\ i = 0
    /\ sharedImageData1 = <<>>
    /\ sharedImageData2 = <<>>
    /\ draws = <<>>
    /\ pending = {}
    /\ writes1 = <<>>
    /\ writes2 = <<>>
    /\ threshold = 0
    /\ dst = <<>>

AppUnchanged ==
    UNCHANGED <<pc, sw, sh, srcData, i, sharedImageData1, sharedImageData2, draws,
                pending, writes1, writes2, threshold, dst, shrinkVars>>

\* the callback at the head of the queue belongs to setImage call n, stage st
TimerDue(n, st) == timers # <<>> /\ Head(timers) = <<n, st>>

\* setImage(image), run by originalImage.onload: clear(), then the first timer
SetImage ==
    /\ Len(selections) < MaxSelections
    /\ \E size \in ImageSizes :
         selections' = Append(selections,
                              [image |-> size, img |-> <<>>, binaryImage |-> <<>>,
                               loaded |-> FALSE, threw |-> FALSE])
    /\ images' = <<>>
    /\ timers' = Append(timers, <<Len(selections) + 1, 1>>)
    /\ AppUnchanged

\* first callback: img = image2ImageData(image, image.width, image.height)
Stage1 ==
    \E n \in 1 .. Len(selections) :
        /\ TimerDue(n, 1)
        /\ selections' = [selections EXCEPT ![n].img = selections[n].image]
        /\ timers' = Append(Tail(timers), <<n, 2>>)
        /\ UNCHANGED images
        /\ AppUnchanged

\* second callback: shrinkImage, toBinaryImage, binaryImage made from a data
\* URL that loads later, then the third timer
Stage2 ==
    \E n \in 1 .. Len(selections) :
        /\ TimerDue(n, 2)
        /\ ~shrinkImageThrows(selections[n].img)
        /\ selections' = [selections EXCEPT ![n].img = shrinkImage(selections[n].img),
                                            ![n].binaryImage = shrinkImage(selections[n].img)]
        /\ timers' = Append(Tail(timers), <<n, 3>>)
        /\ UNCHANGED images
        /\ AppUnchanged

\* second callback when shrinkImage throws: the chain of this call ends
Stage2Throws ==
    \E n \in 1 .. Len(selections) :
        /\ TimerDue(n, 2)
        /\ shrinkImageThrows(selections[n].img)
        /\ selections' = [selections EXCEPT ![n].threw = TRUE]
        /\ timers' = Tail(timers)
        /\ UNCHANGED images
        /\ AppUnchanged

\* binaryImage.image finishes loading its data URL
BinaryImageLoads ==
    \E n \in 1 .. Len(selections) :
        /\ selections[n].binaryImage # <<>>
        /\ ~selections[n].loaded
        /\ selections' = [selections EXCEPT ![n].loaded = TRUE]
        /\ UNCHANGED <<images, timers>>
        /\ AppUnchanged

\* third callback: both elements of shareImage(binaryImage) are pushed
Stage3 ==
    \E n \in 1 .. Len(selections) :
        /\ TimerDue(n, 3)
        /\ selections[n].loaded
        /\ images' = images \o << SharedImage(n, 1, selections[n].binaryImage),
                                  SharedImage(n, 2, selections[n].binaryImage) >>
        /\ timers' = Tail(timers)
        /\ UNCHANGED selections
        /\ AppUnchanged

\* third callback before binaryImage.image has loaded: its width and height
\* are 0, getImageData throws inside shareImage and nothing is pushed
Stage3Throws ==
    \E n \in 1 .. Len(selections) :
        /\ TimerDue(n, 3)
        /\ ~selections[n].loaded
        /\ selections' = [selections EXCEPT ![n].threw = TRUE]
        /\ timers' = Tail(timers)
        /\ UNCHANGED images
        /\ AppUnchanged

AppNext ==
    \/ SetImage
    \/ Stage1
    \/ Stage2
    \/ Stage2Throws
    \/ BinaryImageLoads
    \/ Stage3
    \/ Stage3Throws

AppSpec == AppInit /\ [][AppNext]_vars

(* ------------------------------- C12 ---------------------------------- *)
\* the setImage call made last
Latest == Len(selections)

\* every callback that ran, ran to its end
NoStageThrew == \A n \in 1 .. Len(selections) : ~selections[n].threw

\* C12: for any sequence of selections, also one arriving while the timer
\* stages of an earlier one are pending, no stage of an earlier selection adds
\* its shares to app.images after a later selection's clear(), and once all
\* timers have fired (every stage having run to its end) app.images holds
\* exactly the two shares of the most recently selected image.
C12_Original_LatestSharesOnly ==
    /\ \A k \in 1 .. Len(images) : images[k].selection = Latest
    /\ (timers = <<>> /\ selections # <<>> /\ NoStageThrew) =>
           images = << SharedImage(Latest, 1, selections[Latest].binaryImage),
                       SharedImage(Latest, 2, selections[Latest].binaryImage) >>

====
